---- MODULE Spec2Model ----
(***************************************************************************)
(* Model of the browser script frontend/assets/js/script.js: the seven     *)
(* asynchronous operations (fetchDoseData, uploadDicomFolder, loadDatasets,*)
(* listDatasets, loadSelectedDataset, createPatient, loadPatients), the    *)
(* view regions they write and the requests they issue.  Every invocation  *)
(* is one entry of `calls`; it suspends only at its awaits, and each       *)
(* action below is one synchronous run of the code between two awaits.     *)
(***************************************************************************)
EXTENDS Integers, Sequences, FiniteSets, TLC

\* Bounds of the model.
MaxCalls == 2       \* invocations triggered by the user

VARIABLES
    calls,        \* the invocations, in the order they were made
    requests,     \* the network requests issued, in order
    roiList,      \* children of #roi-list
    datasetList,  \* children of #dataset-list
    dropdown,     \* #datasetDropdown: its options and its value
    patientList,  \* children of #patient-list
    panels,       \* content of the three chart panels
    form,         \* values of the six inputs of the create-patient form
    lastBody      \* per region: the outcome of the request most recently rendered into it

vars == <<calls, requests, roiList, datasetList, dropdown, patientList,
          panels, form, lastBody>>

-----------------------------------------------------------------------------
(* Inputs: what the server may answer and what the user may type.          *)

\* The arrays of names a response may carry: none, one, both in either order.
NameLists == {<<>>, <<"P001">>, <<"P001", "P002">>, <<"P002", "P001">>}

Statuses == {200, 500}
ContentTypes == {"", "text/html", "application/json"}
Responses == [status : Statuses, ctype : ContentTypes]

\* Variant: the status is not looked at.
OkAlways(status) == TRUE

\* response.ok
Ok(status) == status >= 200 /\ status <= 299

\* A JSON object is the set of fields it has and their values.
RoiBodies ==
    {[has |-> {"roi_names"}, roi_names |-> l, error |-> "undefined"] : l \in NameLists}
    \cup {[has |-> {"error"}, roi_names |-> <<>>, error |-> "no RTSTRUCT"],
          [has |-> {}, roi_names |-> <<>>, error |-> "undefined"]}
DatasetBodies ==
    {[has |-> {"datasets"}, datasets |-> l, error |-> "undefined"] : l \in NameLists}
    \cup {[has |-> {"error"}, datasets |-> <<>>, error |-> "no data dir"],
          [has |-> {}, datasets |-> <<>>, error |-> "undefined"]}

NoBody == [has |-> {}]

\* A DOM node: an element or a text node.
Li(text) == [tag |-> "li", text |-> text, onclick |-> FALSE]
LiClick(text) == [tag |-> "li", text |-> text, onclick |-> TRUE]
TextNode(text) == [tag |-> "#text", text |-> text, onclick |-> FALSE]

NoAlert == <<>>

Call(op, pc, parent) ==
    [op |-> op, pc |-> pc, status |-> 0, parsed |-> FALSE,
     alert |-> NoAlert, logged |-> FALSE, parent |-> parent]

Pending(i) == calls[i].pc \in {"fetch", "body", "bodyNonJson"}
CanInvoke == Cardinality({i \in DOMAIN calls : calls[i].parent = 0}) < MaxCalls

Request(by, method, url, body) ==
    [by |-> by, method |-> method, url |-> url, body |-> body]

\* A dropdown already filled by a listDatasets that ran before (script.js 189-207),
\* nothing selected.
FilledDropdowns ==
    {[options |-> <<[value |-> "", text |-> "-- Select a dataset --",
                     disabled |-> TRUE, hidden |-> TRUE],
                    [value |-> "P001", text |-> "P001", disabled |-> FALSE, hidden |-> FALSE],
                    [value |-> "P002", text |-> "P002", disabled |-> FALSE, hidden |-> FALSE]>>,
      value |-> ""]}

\* The elements the script writes: four lists, the chart panels, the form.
Regions == {"roi-list", "dataset-list", "datasetDropdown", "patient-list",
            "plotly", "create-patient-form"}

Init ==
    /\ calls = <<>>
    /\ requests = <<>>
    /\ roiList = <<>>
    /\ datasetList = <<>>
    /\ dropdown = [options |-> <<>>, value |-> ""]
    /\ patientList = <<>>
    /\ panels = [p \in {"plotly-ct-dose", "plotly-dvh", "plotly-ct-overlay"} |-> <<>>]
    /\ form = [id |-> <<>>, first |-> <<>>, middle |-> <<>>, last |-> <<>>,
               dob |-> "", sex |-> ""]
    /\ lastBody = [r \in Regions |-> [by |-> 0, ok |-> FALSE, data |-> NoBody]]

-----------------------------------------------------------------------------
(* Name-list rendering, as uploadDicomFolder, loadSelectedDataset and      *)
(* loadDatasets do it.                                                     *)

RECURSIVE AppendItems(_, _, _)
\* names.forEach(name => ul.appendChild(<li>name</li>))
AppendItems(ul, names, clickable) ==
    IF names = <<>> THEN ul
    ELSE AppendItems(Append(ul, IF clickable THEN LiClick(Head(names)) ELSE Li(Head(names))),
                     Tail(names), clickable)

\* Variant: the element is not emptied before it is filled.
ClearSkipped(ul) == ul

\* ul.innerHTML = ""
Clear(ul) == <<>>

\* Variant: if (data.<field>.length), which takes the empty array for a missing one.
TruthyNonEmpty(data, field) == field \in data.has /\ data[field] # <<>>

\* if (data.<field>): a field that is present holds an array, and every array
\* (the empty one too) is truthy; an absent field is undefined, which is falsy.
Truthy(data, field) == field \in data.has

\* ul.innerHTML = `<li>Error: ${data.error}</li>` replaces whatever ul held
ErrorItem(data) == <<Li("Error: " \o data.error)>>

\* script.js 146-156 and 226-237: clear, then the names or the error item
RenderRoiNames(ul, data) ==
    LET cleared == Clear(ul)
    IN  IF Truthy(data, "roi_names")
        THEN AppendItems(cleared, data.roi_names, FALSE)
        ELSE ErrorItem(data)

\* script.js 167-178: the same for #dataset-list, each item with a click handler
RenderDatasetNames(ul, data) ==
    LET cleared == Clear(ul)
    IN  IF Truthy(data, "datasets")
        THEN AppendItems(cleared, data.datasets, TRUE)
        ELSE ErrorItem(data)

\* script.js 181
FetchErrorItem == <<Li("Fetch error")>>

\* script.js 161
LoadingText == <<TextNode("Loading...")>>

Option(value, text, placeholder) ==
    [value |-> value, text |-> text, disabled |-> placeholder, hidden |-> placeholder]

RECURSIVE AppendOptions(_, _)
AppendOptions(options, names) ==
    IF names = <<>> THEN options
    ELSE AppendOptions(Append(options, Option(Head(names), Head(names), FALSE)), Tail(names))

\* Variant: the options are appended to the ones already there.
RenderDropdownNoClear(select, data) ==
    [options |-> IF "datasets" \in data.has
                 THEN AppendOptions(Append(select.options,
                                           Option("", "-- Select a dataset --", TRUE)),
                                    data.datasets)
                 ELSE Append(select.options, Option("", "-- Select a dataset --", TRUE)),
     value |-> ""]

\* script.js 189-210: clear, the placeholder (selected), then one option per name
RenderDropdown(select, data) ==
    LET cleared == Clear(select.options)
        withDefault == Append(cleared, Option("", "-- Select a dataset --", TRUE))
    IN  [options |-> IF Truthy(data, "datasets")
                     THEN AppendOptions(withDefault, data.datasets)
                     ELSE withDefault,
         value |-> ""]

Jane == [id |-> "1", name |-> "Jane Doe", birthDate |-> "2000-01-01", sex |-> "F"]
John == [id |-> "2", name |-> "John Roe", birthDate |-> "", sex |-> "M"]
PatientBodies == {<<>>, <<Jane>>, <<Jane, John>>, <<John, Jane>>}

\* script.js 332
PatientLine(p) ==
    p.name \o " (ID: " \o p.id \o ", DOB: " \o p.birthDate \o ", Sex: " \o p.sex \o ")"

RECURSIVE AppendPatients(_, _)
AppendPatients(list, patients) ==
    IF patients = <<>> THEN list
    ELSE AppendPatients(Append(list, Li(PatientLine(Head(patients)))), Tail(patients))

\* script.js 328-334
RenderPatients(list, patients) == AppendPatients(Clear(list), patients)

\* Call i with some of its fields changed.  status is the status of the response
\* the invocation holds: 0 before fetch settles and once the function is over.
SetCall(i, fields) == [calls EXCEPT ![i] = fields @@ calls[i]]
\* History: call i handled a parsed body (or, in a catch that renders, a failure).
Delivered(region, i, data) ==
    [lastBody EXCEPT ![region] = [by |-> i, ok |-> TRUE, data |-> data]]
Failed(region, i) ==
    [lastBody EXCEPT ![region] = [by |-> i, ok |-> FALSE, data |-> NoBody]]

-----------------------------------------------------------------------------
(* uploadDicomFolder, script.js 133-157.  No try/catch: a rejected await   *)
(* rejects the promise the function returned.                              *)

\* 134-143: build the form data, issue the POST, suspend at await fetch
uploadDicomFolder ==
    /\ CanInvoke
    /\ calls' = Append(calls, Call("uploadDicomFolder", "fetch", 0))
    /\ requests' = Append(requests,
           Request(Len(calls) + 1, "POST", "/roi/upload_dicom", <<"dicom_folder">>))
    /\ UNCHANGED <<roiList, datasetList, dropdown, patientList, panels, form, lastBody>>

\* 140-145: fetch settles; on a response, res.json() starts reading the body
uploadDicomFolder_fetch(i) ==
    /\ calls[i].op = "uploadDicomFolder" /\ calls[i].pc = "fetch"
    /\ \/ calls' = SetCall(i, [pc |-> "rejected", status |-> 0])
       \/ \E r \in Responses :
            calls' = SetCall(i, [pc |-> "body", status |-> r.status, parsed |-> TRUE])
    /\ UNCHANGED <<requests, roiList, datasetList, dropdown, patientList, panels,
                   form, lastBody>>

\* 145-156: res.json() settles; on a value, the list is cleared and filled
uploadDicomFolder_json(i) ==
    /\ calls[i].op = "uploadDicomFolder" /\ calls[i].pc = "body"
    /\ \/ /\ calls' = SetCall(i, [pc |-> "rejected", status |-> 0])
          /\ UNCHANGED <<roiList, lastBody>>
       \/ \E data \in RoiBodies :
            /\ roiList' = RenderRoiNames(roiList, data)
            /\ lastBody' = Delivered("roi-list", i, data)
            /\ calls' = SetCall(i, [pc |-> "returned", status |-> 0])
    /\ UNCHANGED <<requests, datasetList, dropdown, patientList, panels, form>>

-----------------------------------------------------------------------------
(* loadDatasets, script.js 159-183.  Everything after the placeholder is   *)
(* inside try/catch.                                                       *)

\* 160-164: the placeholder, then the GET
loadDatasets ==
    /\ CanInvoke
    /\ datasetList' = LoadingText
    /\ calls' = Append(calls, Call("loadDatasets", "fetch", 0))
    /\ requests' = Append(requests,
           Request(Len(calls) + 1, "GET", "/load_data/datasets", <<>>))
    /\ UNCHANGED <<roiList, dropdown, patientList, panels, form, lastBody>>

\* 164-165, 179-182
loadDatasets_fetch(i) ==
    /\ calls[i].op = "loadDatasets" /\ calls[i].pc = "fetch"
    /\ \/ /\ calls' = SetCall(i, [pc |-> "returned", status |-> 0, logged |-> TRUE])
          /\ datasetList' = FetchErrorItem
          /\ lastBody' = Failed("dataset-list", i)
       \/ /\ \E r \in Responses :
               calls' = SetCall(i, [pc |-> "body", status |-> r.status, parsed |-> TRUE])
          /\ UNCHANGED <<datasetList, lastBody>>
    /\ UNCHANGED <<requests, roiList, dropdown, patientList, panels, form>>

\* 165-182
loadDatasets_json(i) ==
    /\ calls[i].op = "loadDatasets" /\ calls[i].pc = "body"
    /\ \/ /\ calls' = SetCall(i, [pc |-> "returned", status |-> 0, logged |-> TRUE])
          /\ datasetList' = FetchErrorItem
          /\ lastBody' = Failed("dataset-list", i)
       \/ \E data \in DatasetBodies :
            /\ datasetList' = RenderDatasetNames(datasetList, data)
            /\ lastBody' = Delivered("dataset-list", i, data)
            /\ calls' = SetCall(i, [pc |-> "returned", status |-> 0])
    /\ UNCHANGED <<requests, roiList, dropdown, patientList, panels, form>>

-----------------------------------------------------------------------------
(* listDatasets, script.js 185-211.  No try/catch.                         *)

listDatasets ==
    /\ CanInvoke
    /\ calls' = Append(calls, Call("listDatasets", "fetch", 0))
    /\ requests' = Append(requests,
           Request(Len(calls) + 1, "GET", "/load_data/datasets", <<>>))
    /\ UNCHANGED <<roiList, datasetList, dropdown, patientList, panels, form, lastBody>>

listDatasets_fetch(i) ==
    /\ calls[i].op = "listDatasets" /\ calls[i].pc = "fetch"
    /\ \/ calls' = SetCall(i, [pc |-> "rejected", status |-> 0])
       \/ \E r \in Responses :
            calls' = SetCall(i, [pc |-> "body", status |-> r.status, parsed |-> TRUE])
    /\ UNCHANGED <<requests, roiList, datasetList, dropdown, patientList, panels,
                   form, lastBody>>

\* 187-210: without data.datasets only the placeholder is left, and the error is logged
listDatasets_json(i) ==
    /\ calls[i].op = "listDatasets" /\ calls[i].pc = "body"
    /\ \/ /\ calls' = SetCall(i, [pc |-> "rejected", status |-> 0])
          /\ UNCHANGED <<dropdown, lastBody>>
       \/ \E data \in DatasetBodies :
            /\ dropdown' = RenderDropdown(dropdown, data)
            /\ lastBody' = Delivered("datasetDropdown", i, data)
            /\ calls' = SetCall(i, [pc |-> "returned", status |-> 0,
                                    logged |-> ~Truthy(data, "datasets")])
    /\ UNCHANGED <<requests, roiList, datasetList, patientList, panels, form>>

\* The user picks one of the enabled options of the dropdown.
SelectDataset ==
    /\ \E k \in DOMAIN dropdown.options :
         /\ ~dropdown.options[k].disabled
         /\ dropdown' = [dropdown EXCEPT !.value = dropdown.options[k].value]
    /\ UNCHANGED <<calls, requests, roiList, datasetList, patientList, panels, form,
                   lastBody>>

-----------------------------------------------------------------------------
(* loadSelectedDataset, script.js 214-238.  No try/catch.                  *)

\* Variant: if (dataset === null), which the empty string passes.
FalsyNullOnly(value) == FALSE

\* !dataset (script.js 218): the empty string is the only falsy value of a select
Falsy(value) == value = ""

\* 215-223: without a selection, alert and return; otherwise the GET
loadSelectedDataset ==
    /\ CanInvoke
    /\ IF Falsy(dropdown.value)
       THEN /\ calls' = Append(calls,
                   [Call("loadSelectedDataset", "returned", 0)
                       EXCEPT !.alert = <<"Please select a dataset.">>])
            /\ UNCHANGED requests
       ELSE /\ calls' = Append(calls, Call("loadSelectedDataset", "fetch", 0))
            /\ requests' = Append(requests,
                   Request(Len(calls) + 1, "GET", "/load_data/" \o dropdown.value, <<>>))
    /\ UNCHANGED <<roiList, datasetList, dropdown, patientList, panels, form, lastBody>>

loadSelectedDataset_fetch(i) ==
    /\ calls[i].op = "loadSelectedDataset" /\ calls[i].pc = "fetch"
    /\ \/ calls' = SetCall(i, [pc |-> "rejected", status |-> 0])
       \/ \E r \in Responses :
            calls' = SetCall(i, [pc |-> "body", status |-> r.status, parsed |-> TRUE])
    /\ UNCHANGED <<requests, roiList, datasetList, dropdown, patientList, panels,
                   form, lastBody>>

\* 224-237
loadSelectedDataset_json(i) ==
    /\ calls[i].op = "loadSelectedDataset" /\ calls[i].pc = "body"
    /\ \/ /\ calls' = SetCall(i, [pc |-> "rejected", status |-> 0])
          /\ UNCHANGED <<roiList, lastBody>>
       \/ \E data \in RoiBodies :
            /\ roiList' = RenderRoiNames(roiList, data)
            /\ lastBody' = Delivered("roi-list", i, data)
            /\ calls' = SetCall(i, [pc |-> "returned", status |-> 0])
    /\ UNCHANGED <<requests, datasetList, dropdown, patientList, panels, form>>

-----------------------------------------------------------------------------
(* loadPatients, script.js 325-335.  No try/catch.  It is invoked by the   *)
(* user or by createPatient (parent # 0).                                  *)

loadPatients ==
    /\ CanInvoke
    /\ calls' = Append(calls, Call("loadPatients", "fetch", 0))
    /\ requests' = Append(requests,
           Request(Len(calls) + 1, "GET", "/patients/load", <<>>))
    /\ UNCHANGED <<roiList, datasetList, dropdown, patientList, panels, form, lastBody>>

loadPatients_fetch(i) ==
    /\ calls[i].op = "loadPatients" /\ calls[i].pc = "fetch"
    /\ \/ calls' = SetCall(i, [pc |-> "rejected", status |-> 0])
       \/ \E r \in Responses :
            calls' = SetCall(i, [pc |-> "body", status |-> r.status, parsed |-> TRUE])
    /\ UNCHANGED <<requests, roiList, datasetList, dropdown, patientList, panels,
                   form, lastBody>>

loadPatients_json(i) ==
    /\ calls[i].op = "loadPatients" /\ calls[i].pc = "body"
    /\ \/ /\ calls' = SetCall(i, [pc |-> "rejected", status |-> 0])
          /\ UNCHANGED <<patientList, lastBody>>
       \/ \E patients \in PatientBodies :
            /\ patientList' = RenderPatients(patientList, patients)
            /\ lastBody' = Delivered("patient-list", i, patients)
            /\ calls' = SetCall(i, [pc |-> "returned", status |-> 0])
    /\ UNCHANGED <<requests, roiList, datasetList, dropdown, panels, form>>

-----------------------------------------------------------------------------
(* fetchDoseData, script.js 2-131.  The whole body is inside try/catch;    *)
(* the catch only logs.                                                    *)

DoseFields == {"ct_slice", "mask_slice", "dose_slice", "dvh"}
\* The payloads: two complete ones, one lacking each field, and the empty object.
DoseBodies ==
    {[has |-> DoseFields, v |-> "A"], [has |-> DoseFields, v |-> "B"],
     [has |-> {}, v |-> "A"]}
    \cup {[has |-> DoseFields \ {f}, v |-> "A"] : f \in DoseFields}

\* data.<field>: the value, or undefined
Get(data, field) == IF field \in data.has THEN <<field, data.v>> ELSE <<"undefined">>

\* Plotly.newPlot(id, traces, layout) replaces what the panel shows
NewPlot(charts, id, traces) == [charts EXCEPT ![id] = traces]

\* script.js 15-124: the three charts in order; dvh.dose_values (line 71)
\* throws a TypeError when dvh is undefined, after the first chart is drawn.
RenderDose(charts, data) ==
    LET ct == Get(data, "ct_slice")
        mask == Get(data, "mask_slice")
        dose == Get(data, "dose_slice")
        first == NewPlot(charts, "plotly-ct-dose",
                     <<[type |-> "heatmap", z |-> ct], [type |-> "contour", z |-> mask],
                       [type |-> "heatmap", z |-> dose]>>)
        second == NewPlot(first, "plotly-dvh",
                     <<[type |-> "scatter", x |-> <<"dvh.dose_values", data.v>>,
                        y |-> <<"dvh.volume_percentages", data.v>>]>>)
        third == NewPlot(second, "plotly-ct-overlay",
                     <<[type |-> "heatmap", z |-> ct], [type |-> "heatmap", z |-> dose],
                       [type |-> "heatmap", z |-> mask]>>)
    IN  IF "dvh" \in data.has
        THEN [charts |-> third, threw |-> FALSE]
        ELSE [charts |-> first, threw |-> TRUE]

\* 3-5
fetchDoseData ==
    /\ CanInvoke
    /\ calls' = Append(calls, Call("fetchDoseData", "fetch", 0))
    /\ requests' = Append(requests,
           Request(Len(calls) + 1, "GET", "/plotly/compute_dose", <<>>))
    /\ UNCHANGED <<roiList, datasetList, dropdown, patientList, panels, form, lastBody>>

\* 5-11, 128-130: a failed fetch or a status outside 200..299 goes to the catch
fetchDoseData_fetch(i) ==
    /\ calls[i].op = "fetchDoseData" /\ calls[i].pc = "fetch"
    /\ \/ calls' = SetCall(i, [pc |-> "returned", status |-> 0, logged |-> TRUE])
       \/ \E r \in Responses :
            calls' = IF ~Ok(r.status)
                     THEN SetCall(i, [pc |-> "returned", status |-> 0, logged |-> TRUE])
                     ELSE SetCall(i, [pc |-> "body", status |-> r.status, parsed |-> TRUE])
    /\ UNCHANGED <<requests, roiList, datasetList, dropdown, patientList, panels,
                   form, lastBody>>

\* 11-130
fetchDoseData_json(i) ==
    /\ calls[i].op = "fetchDoseData" /\ calls[i].pc = "body"
    /\ \/ /\ calls' = SetCall(i, [pc |-> "returned", status |-> 0, logged |-> TRUE])
          /\ UNCHANGED <<panels, lastBody>>
       \/ \E data \in DoseBodies :
            LET out == RenderDose(panels, data)
            IN  /\ panels' = out.charts
                /\ lastBody' = Delivered("plotly", i, data)
                /\ calls' = SetCall(i, [pc |-> "returned", status |-> 0, logged |-> out.threw])
    /\ UNCHANGED <<requests, roiList, datasetList, dropdown, patientList, form>>

-----------------------------------------------------------------------------
(* createPatient, script.js 249-322.  Text is a sequence of characters.    *)

IsSpace(c) == c = " "

RECURSIVE TrimStart(_)
TrimStart(s) == IF s # <<>> /\ IsSpace(Head(s)) THEN TrimStart(Tail(s)) ELSE s

RECURSIVE TrimEnd(_)
TrimEnd(s) ==
    IF s # <<>> /\ IsSpace(s[Len(s)]) THEN TrimEnd(SubSeq(s, 1, Len(s) - 1)) ELSE s

\* String.prototype.trim
Trim(s) == TrimEnd(TrimStart(s))

RECURSIVE CollapseSpaces(_)
\* .replace(/\s+/g, ' ')
CollapseSpaces(s) ==
    IF s = <<>> THEN <<>>
    ELSE IF IsSpace(Head(s))
         THEN <<" ">> \o CollapseSpaces(TrimStart(s))
         ELSE <<Head(s)>> \o CollapseSpaces(Tail(s))

\* script.js 267
FullName(first, middle, last) ==
    Trim(CollapseSpaces(first \o <<" ">> \o middle \o <<" ">> \o last))

\* What the user may have typed into the six inputs.
FormInputs ==
    {[id |-> <<"7">>, first |-> <<" ", "J">>, middle |-> <<>>, last |-> <<"D", " ">>,
      dob |-> "2000-01-01", sex |-> "F"],
     [id |-> <<" ">>, first |-> <<"J">>, middle |-> <<"M">>, last |-> <<"D">>,
      dob |-> "", sex |-> "M"],
     [id |-> <<"7">>, first |-> <<" ">>, middle |-> <<>>, last |-> <<"D">>,
      dob |-> "", sex |-> ""],
     [id |-> <<"8">>, first |-> <<"J">>, middle |-> <<"M">>, last |-> <<" ", " ">>,
      dob |-> "1999-12-31", sex |-> "F"]}

EmptyForm ==
    [id |-> <<>>, first |-> <<>>, middle |-> <<>>, last |-> <<>>, dob |-> "", sex |-> ""]

\* The user fills in the form.
FillForm ==
    /\ \E f \in FormInputs : form' = f
    /\ UNCHANGED <<calls, requests, roiList, datasetList, dropdown, patientList,
                   panels, lastBody>>

\* The body texts the server may send: tokens, "{" fields "}" being an object.
BodyTexts ==
    {<<>>, <<" ">>, <<"<html>">>, <<"{", "}">>, <<"{", "message", "}">>,
     <<" ", "{", "error", "message", "}">>}

\* Variant: a body that does not parse is taken for an empty object.
JSONParseLenient(text) ==
    [valid |-> TRUE,
     data |-> [has |-> {}, error |-> "duplicate id", message |-> "not allowed"]]

\* JSON.parse: the object, or a SyntaxError
JSONParse(text) ==
    LET t == Trim(text)
        inner == SubSeq(t, 2, Len(t) - 1)
    IN  IF /\ Len(t) >= 2 /\ t[1] = "{" /\ t[Len(t)] = "}"
           /\ \A k \in DOMAIN inner : inner[k] \in {"error", "message"}
        THEN [valid |-> TRUE,
              data |-> [has |-> {inner[k] : k \in DOMAIN inner},
                        error |-> "duplicate id", message |-> "not allowed"]]
        ELSE [valid |-> FALSE, data |-> NoBody]

\* contentType && contentType.includes("application/json"), script.js 280
IsJsonType(ctype) == ctype \in {"application/json", "application/json; charset=utf-8"}

\* data.error || data.message || `Error creating patient. Status: ...`, script.js 315
ErrorMsg(data, status) ==
    IF "error" \in data.has THEN <<data.error>>
    ELSE IF "message" \in data.has THEN <<data.message>>
    ELSE <<"Error creating patient. Status: ", status>>

\* script.js 318-321
CatchAlert == <<"Error: Failed to create patient. ", "Failed to fetch">>

\* Variant: (!first && !last) instead of (!first || !last).
MissingAlertBothNames(id, first, last) ==
    IF id = <<>> THEN <<"Error: Patient ID is required.">>
    ELSE IF first = <<>> /\ last = <<>>
         THEN <<"Error: First name and last name are required.">>
         ELSE NoAlert

\* 258-265: the required fields, checked on the trimmed values
MissingAlert(id, first, last) ==
    IF id = <<>> THEN <<"Error: Patient ID is required.">>
    ELSE IF first = <<>> \/ last = <<>>
         THEN <<"Error: First name and last name are required.">>
         ELSE NoAlert

\* 250-276: read and trim the fields, validate, POST the payload
createPatient ==
    /\ CanInvoke
    /\ LET id == Trim(form.id)
           first == Trim(form.first)
           middle == Trim(form.middle)
           last == Trim(form.last)
           missing == MissingAlert(id, first, last)
       IN  IF missing # NoAlert
           THEN /\ calls' = Append(calls,
                       [Call("createPatient", "returned", 0) EXCEPT !.alert = missing])
                /\ UNCHANGED requests
           ELSE /\ calls' = Append(calls, Call("createPatient", "fetch", 0))
                /\ requests' = Append(requests,
                       Request(Len(calls) + 1, "POST", "/patients/create",
                               [id |-> id, name |-> FullName(first, middle, last),
                                birthDate |-> form.dob, sex |-> form.sex]))
    /\ UNCHANGED <<roiList, datasetList, dropdown, patientList, panels, form, lastBody>>

\* 272-288: fetch settles; the content type decides which response.text() is awaited
createPatient_fetch(i) ==
    /\ calls[i].op = "createPatient" /\ calls[i].pc = "fetch"
    /\ \/ calls' = SetCall(i, [pc |-> "returned", status |-> 0, logged |-> TRUE, alert |-> CatchAlert])
       \/ \E r \in Responses :
            calls' = SetCall(i, [pc |-> IF IsJsonType(r.ctype) THEN "body" ELSE "bodyNonJson",
                                 status |-> r.status])
    /\ UNCHANGED <<requests, roiList, datasetList, dropdown, patientList, panels,
                   form, lastBody>>

\* 281-284
createPatient_nonJson(i) ==
    /\ calls[i].op = "createPatient" /\ calls[i].pc = "bodyNonJson"
    /\ \/ calls' = SetCall(i, [pc |-> "returned", status |-> 0, logged |-> TRUE, alert |-> CatchAlert])
       \/ \E text \in BodyTexts :
            calls' = SetCall(i, [pc |-> "returned", status |-> 0, logged |-> TRUE,
                   alert |-> <<"Error: Server returned non-JSON response. Status: ",
                               calls[i].status>>])
    /\ UNCHANGED <<requests, roiList, datasetList, dropdown, patientList, panels,
                   form, lastBody>>

\* Variant: the success path without the loadPatients() call.
CreateSucceededNoReload(i) ==
    /\ calls' = SetCall(i, [pc |-> "returned", status |-> 0, parsed |-> TRUE,
                            alert |-> <<"Patient created successfully!">>])
    /\ UNCHANGED requests
    /\ form' = EmptyForm

\* 304-313: the success path: alert, loadPatients() up to its await, reset the form
CreateSucceeded(i) ==
    /\ calls' = Append(SetCall(i, [pc |-> "returned", status |-> 0, parsed |-> TRUE,
                                   alert |-> <<"Patient created successfully!">>]),
                       Call("loadPatients", "fetch", i))
    /\ requests' = Append(requests,
           Request(Len(calls) + 1, "GET", "/patients/load", <<>>))
    /\ form' = EmptyForm

\* 288-317
createPatient_text(i) ==
    /\ calls[i].op = "createPatient" /\ calls[i].pc = "body"
    /\ \/ /\ calls' = SetCall(i, [pc |-> "returned", status |-> 0, logged |-> TRUE, alert |-> CatchAlert])
          /\ UNCHANGED <<requests, form, lastBody>>
       \/ \E text \in BodyTexts :
            LET status == calls[i].status
                parse == JSONParse(text)
            IN  /\ lastBody' = Delivered("create-patient-form", i, text)
                /\ IF Trim(text) = <<>>
                   THEN /\ calls' = SetCall(i, [pc |-> "returned", status |-> 0, logged |-> TRUE,
                               alert |-> <<"Error: Empty response from server. Status: ",
                                           status>>])
                        /\ UNCHANGED <<requests, form>>
                   ELSE IF ~parse.valid
                   THEN /\ calls' = SetCall(i, [pc |-> "returned", status |-> 0, logged |-> TRUE,
                               parsed |-> TRUE,
                               alert |-> <<"Error: Invalid JSON response from server. Status: ",
                                           status>>])
                        /\ UNCHANGED <<requests, form>>
                   ELSE IF Ok(status)
                   THEN CreateSucceeded(i)
                   ELSE /\ calls' = SetCall(i, [pc |-> "returned", status |-> 0, parsed |-> TRUE,
                               alert |-> <<"Error: ">> \o ErrorMsg(parse.data, status)])
                        /\ UNCHANGED <<requests, form>>
    /\ UNCHANGED <<roiList, datasetList, dropdown, patientList, panels>>

-----------------------------------------------------------------------------

\* The page with the dropdown empty or already filled.
InitLists ==
    /\ calls = <<>>
    /\ requests = <<>>
    /\ roiList = <<>>
    /\ datasetList = <<>>
    /\ dropdown \in {[options |-> <<>>, value |-> ""]} \cup FilledDropdowns
    /\ patientList = <<>>
    /\ panels = [p \in {"plotly-ct-dose", "plotly-dvh", "plotly-ct-overlay"} |-> <<>>]
    /\ form = EmptyForm
    /\ lastBody = [r \in Regions |-> [by |-> 0, ok |-> FALSE, data |-> NoBody]]

\* Every step of the script.
Next ==
    \/ fetchDoseData \/ uploadDicomFolder \/ loadDatasets \/ listDatasets
    \/ loadSelectedDataset \/ createPatient \/ loadPatients
    \/ SelectDataset \/ FillForm
    \/ \E i \in DOMAIN calls : uploadDicomFolder_fetch(i)
    \/ \E i \in DOMAIN calls : uploadDicomFolder_json(i)
    \/ \E i \in DOMAIN calls : loadDatasets_fetch(i)
    \/ \E i \in DOMAIN calls : loadDatasets_json(i)
    \/ \E i \in DOMAIN calls : listDatasets_fetch(i)
    \/ \E i \in DOMAIN calls : listDatasets_json(i)
    \/ \E i \in DOMAIN calls : loadSelectedDataset_fetch(i)
    \/ \E i \in DOMAIN calls : loadSelectedDataset_json(i)
    \/ \E i \in DOMAIN calls : loadPatients_fetch(i)
    \/ \E i \in DOMAIN calls : loadPatients_json(i)
    \/ \E i \in DOMAIN calls : fetchDoseData_fetch(i)
    \/ \E i \in DOMAIN calls : fetchDoseData_json(i)
    \/ \E i \in DOMAIN calls : createPatient_fetch(i)
    \/ \E i \in DOMAIN calls : createPatient_nonJson(i)
    \/ \E i \in DOMAIN calls : createPatient_text(i)

Spec == Init /\ [][Next]_vars

\* The operations on the list regions and the dropdown.
NextLists ==
    \/ uploadDicomFolder \/ loadDatasets \/ listDatasets
    \/ loadSelectedDataset \/ loadPatients \/ SelectDataset
    \/ \E i \in DOMAIN calls : uploadDicomFolder_fetch(i)
    \/ \E i \in DOMAIN calls : uploadDicomFolder_json(i)
    \/ \E i \in DOMAIN calls : loadDatasets_fetch(i)
    \/ \E i \in DOMAIN calls : loadDatasets_json(i)
    \/ \E i \in DOMAIN calls : listDatasets_fetch(i)
    \/ \E i \in DOMAIN calls : listDatasets_json(i)
    \/ \E i \in DOMAIN calls : loadSelectedDataset_fetch(i)
    \/ \E i \in DOMAIN calls : loadSelectedDataset_json(i)
    \/ \E i \in DOMAIN calls : loadPatients_fetch(i)
    \/ \E i \in DOMAIN calls : loadPatients_json(i)

SpecLists == InitLists /\ [][NextLists]_vars

\* The patient form: createPatient, the loadPatients it triggers, the user typing.
NextPatient ==
    \/ createPatient \/ loadPatients \/ FillForm
    \/ \E i \in DOMAIN calls : loadPatients_fetch(i)
    \/ \E i \in DOMAIN calls : loadPatients_json(i)
    \/ \E i \in DOMAIN calls : createPatient_fetch(i)
    \/ \E i \in DOMAIN calls : createPatient_nonJson(i)
    \/ \E i \in DOMAIN calls : createPatient_text(i)

SpecPatient == Init /\ [][NextPatient]_vars

\* The dose charts alone.
NextDose ==
    \/ fetchDoseData
    \/ \E i \in DOMAIN calls : fetchDoseData_fetch(i)
    \/ \E i \in DOMAIN calls : fetchDoseData_json(i)

SpecDose == Init /\ [][NextDose]_vars

\* The page with the form already filled in.
InitFilled ==
    /\ calls = <<>>
    /\ requests = <<>>
    /\ roiList = <<>>
    /\ datasetList = <<>>
    /\ dropdown = [options |-> <<>>, value |-> ""]
    /\ patientList = <<>>
    /\ panels = [p \in {"plotly-ct-dose", "plotly-dvh", "plotly-ct-overlay"} |-> <<>>]
    /\ form \in FormInputs
    /\ lastBody = [r \in Regions |-> [by |-> 0, ok |-> FALSE, data |-> NoBody]]

\* The three ways a response is validated: fetchDoseData, createPatient, a list loader.
NextValidate ==
    \/ fetchDoseData \/ createPatient \/ loadPatients
    \/ \E i \in DOMAIN calls : loadPatients_fetch(i)
    \/ \E i \in DOMAIN calls : loadPatients_json(i)
    \/ \E i \in DOMAIN calls : fetchDoseData_fetch(i)
    \/ \E i \in DOMAIN calls : fetchDoseData_json(i)
    \/ \E i \in DOMAIN calls : createPatient_fetch(i)
    \/ \E i \in DOMAIN calls : createPatient_nonJson(i)
    \/ \E i \in DOMAIN calls : createPatient_text(i)

SpecValidate == InitFilled /\ [][NextValidate]_vars

-----------------------------------------------------------------------------
(* Properties.                                                             *)

\* Text that is empty once trimmed.
IsBlank(text) == \A k \in DOMAIN text : text[k] = " "

Success(status) == status \in 200..299

RequestsBy(i) == {k \in DOMAIN requests : requests[k].by = i}
ChildrenOf(i) == {j \in DOMAIN calls : calls[j].parent = i}

\* This step is the user invoking op: the new invocation is the last of calls'.
Invoked(op) ==
    /\ Len(calls') = Len(calls) + 1
    /\ calls'[Len(calls')].op = op
    /\ calls'[Len(calls')].parent = 0

\* This step is invocation i receiving the last thing it awaited.
Finishes(i) == Pending(i) /\ calls'[i].pc \in {"returned", "rejected"}

ValidationAlerts ==
    {<<"Error: Patient ID is required.">>,
     <<"Error: First name and last name are required.">>}
SuccessAlert == <<"Patient created successfully!">>

\* C1: a createPatient invoked while the id, the first name or the last name is
\* blank after trimming alerts the validation error and returns at once, and it
\* sends no request: no POST /patients/create, and no GET /patients/load either,
\* then or later.
C1_BlankFieldSendsNothing ==
    /\ [][(/\ Invoked("createPatient")
           /\ IsBlank(form.id) \/ IsBlank(form.first) \/ IsBlank(form.last))
          => /\ calls'[Len(calls')].pc = "returned"
             /\ calls'[Len(calls')].alert \in ValidationAlerts
             /\ requests' = requests]_vars
    /\ [](\A i \in DOMAIN calls :
            calls[i].alert \in ValidationAlerts
            => calls[i].pc = "returned" /\ RequestsBy(i) = {} /\ ChildrenOf(i) = {})

\* A name field of nothing but spaces was refused, and nothing was sent.
C1_Witness ==
    \E i \in DOMAIN calls :
        /\ calls[i].op = "createPatient"
        /\ calls[i].alert = <<"Error: First name and last name are required.">>
        /\ requests = <<>>

\* C2: a loadSelectedDataset invoked while the dropdown's value is empty alerts
\* the missing selection, sends no request and leaves the ROI list as it is,
\* every time it is invoked.
C2_NoSelectionSendsNothing ==
    /\ [][(Invoked("loadSelectedDataset") /\ dropdown.value = "")
          => /\ calls'[Len(calls')].pc = "returned"
             /\ calls'[Len(calls')].alert = <<"Please select a dataset.">>
             /\ requests' = requests
             /\ roiList' = roiList]_vars
    /\ [](\A i \in DOMAIN calls :
            calls[i].alert = <<"Please select a dataset.">> => RequestsBy(i) = {})

\* Invoked twice without a selection: two alerts, no request.
C2_Witness ==
    /\ Len(calls) = 2
    /\ \A i \in DOMAIN calls :
         calls[i].op = "loadSelectedDataset"
         /\ calls[i].alert = <<"Please select a dataset.">>
    /\ requests = <<>>

ListLoaders ==
    {"uploadDicomFolder", "loadDatasets", "listDatasets", "loadSelectedDataset",
     "loadPatients"}

C4_NothingEscapes ==
    \A i \in DOMAIN calls : calls[i].pc # "rejected"

Panels == {"plotly-ct-dose", "plotly-dvh", "plotly-ct-overlay"}

\* C5: when a fetchDoseData ends, either its response was a 2xx one carrying all
\* of ct_slice, mask_slice, dose_slice and dvh, and all three panels are drawn,
\* or it failed: the failure is logged and no panel has changed.
C5_AllPanelsOrNone ==
    [][\A i \in DOMAIN calls :
         (calls[i].op = "fetchDoseData" /\ Finishes(i))
         => IF /\ lastBody'["plotly"].by = i
               /\ lastBody'["plotly"].data.has = DoseFields
            THEN \A p \in Panels : panels'[p] # <<>>
            ELSE calls'[i].logged /\ panels' = panels]_vars

ValidJsonTexts ==
    {<<"{", "}">>, <<"{", "message", "}">>, <<" ", "{", "error", "message", "}">>}

\* This step is createPatient i receiving a body of valid JSON with a 2xx status
\* and a JSON content type.
ReceivesSuccess(i) ==
    /\ calls[i].op = "createPatient" /\ calls[i].pc = "body"
    /\ Success(calls[i].status)
    /\ lastBody'["create-patient-form"].by = i
    /\ lastBody'["create-patient-form"].data \in ValidJsonTexts

\* C6: a createPatient that ends in any way but success (validation, transport,
\* content type, empty body, malformed JSON, status) has alerted the user and
\* changes none of the six fields; the fields change only when the user types
\* or when a createPatient succeeds.
C6_FailureKeepsForm ==
    /\ [][(Invoked("createPatient") /\ calls'[Len(calls')].pc = "returned")
          => calls'[Len(calls')].alert \notin {NoAlert, SuccessAlert}
             /\ form' = form]_vars
    /\ [][\A i \in DOMAIN calls :
            (calls[i].op = "createPatient" /\ Finishes(i) /\ ~ReceivesSuccess(i))
            => /\ calls'[i].pc = "returned"
               /\ calls'[i].alert \notin {NoAlert, SuccessAlert}
               /\ form' = form]_vars
    /\ [][(form' # form /\ calls' # calls)
          => \E i \in DOMAIN calls : Finishes(i) /\ ReceivesSuccess(i)]_vars

\* A server error was alerted and the form still holds what the user typed.
C6_Witness ==
    \E i \in DOMAIN calls :
        /\ calls[i].op = "createPatient"
        /\ calls[i].alert = <<"Error: ", "not allowed">>
        /\ form.id = <<"7">> /\ form.last = <<"D", " ">>

\* C8: a createPatient that receives valid JSON with a 2xx status alerts
\* success, clears the six fields and calls loadPatients once, which sends the
\* GET /patients/load; so every such GET sent on behalf of a createPatient
\* comes after that invocation's POST and after its success, and an invocation
\* that did not succeed has triggered none.
C8_SuccessReloadsOnce ==
    /\ [][\A i \in DOMAIN calls :
            (Finishes(i) /\ ReceivesSuccess(i))
            => /\ calls'[i].alert = SuccessAlert
               /\ form' = EmptyForm
               /\ Len(calls') = Len(calls) + 1
               /\ calls'[Len(calls')].op = "loadPatients"
               /\ calls'[Len(calls')].parent = i
               /\ requests' = Append(requests,
                      Request(Len(calls'), "GET", "/patients/load", <<>>))]_vars
    /\ [](\A i \in DOMAIN calls :
            calls[i].op = "createPatient"
            => Cardinality(ChildrenOf(i)) = IF calls[i].alert = SuccessAlert THEN 1 ELSE 0)
    /\ [](\A k \in DOMAIN requests :
            LET parent == calls[requests[k].by].parent
            IN  parent # 0
                => /\ requests[k].url = "/patients/load"
                   /\ calls[parent].alert = SuccessAlert
                   /\ \E m \in 1..(k - 1) :
                        /\ requests[m].by = parent
                        /\ requests[m].method = "POST"
                        /\ requests[m].url = "/patients/create")

\* A createPatient succeeded: the form is empty and its one loadPatients is under way.
C8_Witness ==
    \E i \in DOMAIN calls :
        /\ calls[i].alert = SuccessAlert
        /\ Cardinality(ChildrenOf(i)) = 1
        /\ form = EmptyForm
        /\ \E k \in DOMAIN requests :
             requests[k].url = "/patients/load" /\ calls[requests[k].by].parent = i

ListRegions == {"roi-list", "dataset-list", "datasetDropdown", "patient-list"}

\* The region an operation renders into.
Target(op) ==
    CASE op \in {"uploadDicomFolder", "loadSelectedDataset"} -> "roi-list"
      [] op = "loadDatasets" -> "dataset-list"
      [] op = "listDatasets" -> "datasetDropdown"
      [] op = "loadPatients" -> "patient-list"
      [] OTHER -> "none"

\* What a region shows.
Content(region) ==
    CASE region = "roi-list" -> roiList
      [] region = "dataset-list" -> datasetList
      [] region = "datasetDropdown" -> dropdown.options
      [] region = "patient-list" -> patientList

Items(names, clickable) ==
    [k \in 1..Len(names) |-> [tag |-> "li", text |-> names[k], onclick |-> clickable]]

\* The complete render of one outcome: one item per name in the order given, or
\* the one error item; for the dropdown the placeholder and one option per name.
RenderOf(region, outcome) ==
    LET data == outcome.data
        errorItem == <<[tag |-> "li", text |-> "Error: " \o data.error, onclick |-> FALSE]>>
    IN  CASE region = "roi-list" ->
               IF "roi_names" \in data.has THEN Items(data.roi_names, FALSE) ELSE errorItem
          [] region = "dataset-list" ->
               IF ~outcome.ok
               THEN <<[tag |-> "li", text |-> "Fetch error", onclick |-> FALSE]>>
               ELSE IF "datasets" \in data.has THEN Items(data.datasets, TRUE)
               ELSE errorItem
          [] region = "datasetDropdown" ->
               <<[value |-> "", text |-> "-- Select a dataset --",
                  disabled |-> TRUE, hidden |-> TRUE]>>
               \o (IF "datasets" \in data.has
                   THEN [k \in 1..Len(data.datasets) |->
                           [value |-> data.datasets[k], text |-> data.datasets[k],
                            disabled |-> FALSE, hidden |-> FALSE]]
                   ELSE <<>>)
          [] region = "patient-list" ->
               [k \in 1..Len(data) |->
                  [tag |-> "li", text |-> PatientLine(data[k]), onclick |-> FALSE]]

\* The invocations that sent a request and render into the region.
RenderersOf(region) ==
    {i \in DOMAIN calls : Target(calls[i].op) = region /\ RequestsBy(i) # {}}

\* Invocation i can take its next step.
CanResume(i) ==
    ENABLED (\/ uploadDicomFolder_fetch(i) \/ uploadDicomFolder_json(i)
             \/ loadDatasets_fetch(i) \/ loadDatasets_json(i)
             \/ listDatasets_fetch(i) \/ listDatasets_json(i)
             \/ loadSelectedDataset_fetch(i) \/ loadSelectedDataset_json(i)
             \/ loadPatients_fetch(i) \/ loadPatients_json(i))

\* C7: operations in flight on the same region do not cancel one another: each
\* pending one can always go on; and once two or more of them have all run to
\* completion, the region shows the complete render of the one whose response
\* was delivered last, whatever the order they were invoked in.
C7_LastResponseWins ==
    /\ \A i \in DOMAIN calls : Pending(i) => CanResume(i)
    /\ \A region \in ListRegions :
         (/\ Cardinality(RenderersOf(region)) >= 2
          /\ \A i \in RenderersOf(region) : calls[i].pc = "returned")
         => /\ lastBody[region].by \in RenderersOf(region)
            /\ Content(region) = RenderOf(region, lastBody[region])

\* uploadDicomFolder was invoked first and loadSelectedDataset second, the
\* upload's response came last, and the ROI list shows the upload's names.
C7_Witness ==
    /\ Len(calls) = 2
    /\ calls[1].op = "uploadDicomFolder" /\ calls[1].pc = "returned"
    /\ calls[2].op = "loadSelectedDataset" /\ calls[2].pc = "returned"
    /\ RequestsBy(2) # {}
    /\ lastBody["roi-list"].by = 1
    /\ roiList = Items(<<"P002", "P001">>, FALSE)

\* C9: the step that renders a name list (the ROI list, the dataset list) leaves
\* in the list exactly one item per name of the array, in the array's order,
\* when the body has the array field (so nothing for the empty array), and
\* exactly one error item and nothing else when it has not.
C9_NamesOrOneError ==
    [][/\ (lastBody'["roi-list"].by # lastBody["roi-list"].by)
          => LET data == lastBody'["roi-list"].data
             IN  /\ "roi_names" \in data.has
                    => /\ Len(roiList') = Len(data.roi_names)
                       /\ \A k \in DOMAIN roiList' :
                            roiList'[k].tag = "li" /\ roiList'[k].text = data.roi_names[k]
                 /\ "roi_names" \notin data.has
                    => /\ Len(roiList') = 1
                       /\ roiList'[1].text = "Error: " \o data.error
       /\ (lastBody'["dataset-list"].by # lastBody["dataset-list"].by
              /\ lastBody'["dataset-list"].ok)
          => LET data == lastBody'["dataset-list"].data
             IN  /\ "datasets" \in data.has
                    => /\ Len(datasetList') = Len(data.datasets)
                       /\ \A k \in DOMAIN datasetList' :
                            datasetList'[k].tag = "li"
                            /\ datasetList'[k].text = data.datasets[k]
                 /\ "datasets" \notin data.has
                    => /\ Len(datasetList') = 1
                       /\ datasetList'[1].text = "Error: " \o data.error]_vars

\* An empty array left the ROI list empty while an empty object left the one
\* error item in the dataset list.
C9_Witness ==
    /\ lastBody["roi-list"].by # 0
    /\ lastBody["roi-list"].data.has = {"roi_names"}
    /\ lastBody["roi-list"].data.roi_names = <<>>
    /\ roiList = <<>>
    /\ lastBody["dataset-list"].ok
    /\ lastBody["dataset-list"].data.has = {}
    /\ datasetList = <<[tag |-> "li", text |-> "Error: undefined", onclick |-> FALSE]>>

\* What a region holds before any operation has written it.
InitialContents(region) ==
    IF region = "datasetDropdown"
    THEN {<<>>} \cup {d.options : d \in FilledDropdowns}
    ELSE {<<>>}

\* C10: whatever the interleaving, a list region or the dropdown shows its
\* initial content, the loading placeholder, or the complete render of exactly
\* one request's outcome, the one handled last for the region: never items of
\* two responses, never items of one beside the error item of another.
C10_NeverAMixture ==
    \A region \in ListRegions :
        \/ Content(region) \in InitialContents(region) /\ lastBody[region].by = 0
        \/ region = "dataset-list"
           /\ Content(region) = <<[tag |-> "#text", text |-> "Loading...", onclick |-> FALSE]>>
        \/ lastBody[region].by # 0
           /\ Content(region) = RenderOf(region, lastBody[region])

\* Two uploads in flight: the second one's response has been rendered while
\* the first still waits for its body.
C10_Witness ==
    /\ Len(calls) = 2
    /\ calls[1].op = "uploadDicomFolder" /\ calls[1].pc = "body"
    /\ calls[2].op = "uploadDicomFolder" /\ calls[2].pc = "returned"
    /\ roiList = Items(<<"P001", "P002">>, FALSE)

====
